---------------------------- MODULE Spec2Model ----------------------------
(***************************************************************************)
(* A model of pydev-repl: the diff analyser of parse.py (affected_snippet) *)
(* and the context store of context.py (run, globals_of).                  *)
(*                                                                         *)
(* Source texts are sequences of newline-terminated lines.  The managed    *)
(* scripts are written in a fragment of Python: blank lines, comment       *)
(* lines, lines of simple statements joined by ';' (assignment, augmented  *)
(* assignment, import), and function definitions made of a header line and *)
(* indented 'return' lines.  Line numbers are 1-based for ast nodes        *)
(* (lineno, end_lineno) and 0-based for _Stmt.start/_Stmt.end and for      *)
(* changed_lines, as in the code.                                          *)
(***************************************************************************)
EXTENDS Integers, Sequences, FiniteSets, TLC

(***************************************************************************)
(* Bounds of the model.                                                    *)
(***************************************************************************)
MaxEdits == 1      \* edits that turn old_src into new_src
MaxCalls == 3      \* calls of run / globals_of in one behaviour
MaxVer   == 2      \* versions a module file goes through on disk
Wait      == 2     \* debounce_sec, in clock ticks
MaxTime   == 7     \* last clock reading of a behaviour
MaxEvents == 3     \* file events delivered in one behaviour

(***************************************************************************)
(* Expressions: a constant, NAME + constant, NAME(), NAME.foo() and NAME.  *)
(***************************************************************************)
NoExpr   == [op |-> "const", r |-> "", c |-> 0]
Const(c) == [op |-> "const", r |-> "", c |-> c]
Add(r, c) == [op |-> "add", r |-> r, c |-> c]
Call(r)  == [op |-> "call", r |-> r, c |-> 0]
Attr(r)  == [op |-> "attr", r |-> r, c |-> 0]
Name(r)  == [op |-> "name", r |-> r, c |-> 0]

\* The names an expression reads (ast.Name nodes in Load context).
Loads(e) == IF e.op = "const" THEN {} ELSE {e.r}

(***************************************************************************)
(* Simple statements and lines.                                            *)
(***************************************************************************)
Assign(t, e)    == [k |-> "Assign", n |-> t, e |-> e]
AugAssign(t, e) == [k |-> "AugAssign", n |-> t, e |-> e]
Import(m)       == [k |-> "Import", n |-> m, e |-> NoExpr]
Expr(e)         == [k |-> "Expr", n |-> "", e |-> e]
NamedExpr(t, e) == [k |-> "NamedExpr", n |-> t, e |-> e]            \* '(t := e)'

Blank    == [k |-> "blank", ss |-> <<>>, n |-> "", e |-> NoExpr]     \* '\n'
Cmt(c)   == [k |-> "cmt", ss |-> <<>>, n |-> c, e |-> NoExpr]        \* '# c\n'
Code(ss) == [k |-> "code", ss |-> ss, n |-> "", e |-> NoExpr]        \* 's1; s2\n'
Def(f)   == [k |-> "def", ss |-> <<>>, n |-> f, e |-> NoExpr]        \* 'def f():\n'
DefDefault(f, e) == [k |-> "def", ss |-> <<>>, n |-> f, e |-> e]     \* 'def f(a=e):\n'
Ret(e)   == [k |-> "ret", ss |-> <<>>, n |-> "", e |-> e]            \* '  return e\n'

Cosmetic(line) == line.k \in {"blank", "cmt"}

\* str.strip() of a text is empty: every line is empty.
StripIsEmpty(src) == \A i \in 1..Len(src) : src[i].k = "blank"

(***************************************************************************)
(* ast.parse / compile.  A definition runs from its header to the last     *)
(* indented line that follows it with only blank, comment and indented     *)
(* lines in between; an indented line outside a definition, and a header   *)
(* without a body, are syntax errors.                                      *)
(***************************************************************************)
InBody(lines, i, j) ==
  /\ lines[i].k = "def"
  /\ i < j
  /\ \A l \in (i + 1)..j : lines[l].k \in {"ret", "blank", "cmt"}

HasBody(lines, i) ==
  \E j \in (i + 1)..Len(lines) : InBody(lines, i, j) /\ lines[j].k = "ret"

DefEnd(lines, i) ==
  CHOOSE j \in (i + 1)..Len(lines) :
    /\ InBody(lines, i, j) /\ lines[j].k = "ret"
    /\ \A l \in (j + 1)..Len(lines) : ~(InBody(lines, i, l) /\ lines[l].k = "ret")

DefBody(lines, i) ==
  lines[CHOOSE j \in (i + 1)..Len(lines) :
          lines[j].k = "ret" /\ \A l \in (i + 1)..(j - 1) : lines[l].k # "ret"].e

Parses(lines) ==
  \A i \in 1..Len(lines) :
    /\ lines[i].k = "def" => HasBody(lines, i)
    /\ lines[i].k = "ret" => \E h \in 1..(i - 1) : InBody(lines, h, i)

\* d is the default value of the parameter of a function definition.
Node(s, lineno, end_lineno) ==
  [k |-> s.k, n |-> s.n, e |-> s.e, d |-> NoExpr,
   lineno |-> lineno, end_lineno |-> end_lineno]

RECURSIVE ParseFrom(_, _)
ParseFrom(lines, i) ==
  IF i > Len(lines) THEN <<>>
  ELSE IF lines[i].k = "code"
    THEN [j \in 1..Len(lines[i].ss) |-> Node(lines[i].ss[j], i, i)]
           \o ParseFrom(lines, i + 1)
  ELSE IF lines[i].k = "def"
    THEN <<[Node([k |-> "FunctionDef", n |-> lines[i].n, e |-> DefBody(lines, i)],
                 i, DefEnd(lines, i)) EXCEPT !.d = lines[i].e]>>
           \o ParseFrom(lines, DefEnd(lines, i) + 1)
  ELSE ParseFrom(lines, i + 1)

\* mod.body of ast.parse(''.join(lines)), for a text that parses.
ast_parse(lines) == ParseFrom(lines, 1)

(***************************************************************************)
(* Values and exec.  A namespace maps the names it binds to values; a      *)
(* module value refers to the module object of sys.modules, whose content  *)
(* is the version of the module file it was last loaded from (0: not       *)
(* loaded).  m.foo() returns that version.                                 *)
(***************************************************************************)
IntV(v) == [t |-> "int", v |-> v, e |-> NoExpr]
FnV(e)  == [t |-> "fn", v |-> 0, e |-> e]
ModV(m) == [t |-> "mod", v |-> 0, e |-> Attr(m)]
ErrV    == [t |-> "err", v |-> 0, e |-> NoExpr]

Bind(g, n, v) == [x \in DOMAIN g \cup {n} |-> IF x = n THEN v ELSE g[x]]

\* An expression without a call, in namespace g.
EvalFlat(e, g, mods) ==
  CASE e.op = "const" -> IntV(e.c)
    [] e.op = "add" -> IF e.r \in DOMAIN g /\ g[e.r].t = "int"
                         THEN IntV(g[e.r].v + e.c) ELSE ErrV
    [] e.op = "attr" -> IF e.r \in DOMAIN g /\ g[e.r].t = "mod"
                          THEN IntV(mods[g[e.r].e.r]) ELSE ErrV
    [] e.op = "name" -> IF e.r \in DOMAIN g THEN g[e.r] ELSE ErrV
    [] OTHER -> ErrV

\* A call runs the body of the function against the globals at call time.
Eval(e, g, mods) ==
  IF e.op = "call"
    THEN IF e.r \in DOMAIN g /\ g[e.r].t = "fn"
           THEN EvalFlat(g[e.r].e, g, mods) ELSE ErrV
    ELSE EvalFlat(e, g, mods)

\* One statement executed in machine state st = [g, mods, out].
ExecNode(node, st, disk) ==
  CASE node.k = "Import" ->
         [g |-> Bind(st.g, node.n, ModV(node.n)),
          mods |-> IF st.mods[node.n] = 0
                     THEN [st.mods EXCEPT ![node.n] = disk[node.n]] ELSE st.mods,
          out |-> "ok"]
    [] node.k = "FunctionDef" ->
         \* the default value is computed when the definition is executed
         IF Eval(node.d, st.g, st.mods).t = "err"
           THEN [st EXCEPT !.out = "RuntimeError"]
           ELSE [st EXCEPT !.g = Bind(st.g, node.n, FnV(node.e))]
    [] node.k \in {"Assign", "NamedExpr"} ->
         LET v == Eval(node.e, st.g, st.mods)
         IN  IF v.t = "err" THEN [st EXCEPT !.out = "RuntimeError"]
             ELSE [st EXCEPT !.g = Bind(st.g, node.n, v)]
    [] node.k = "Expr" ->
         IF Eval(node.e, st.g, st.mods).t = "err"
           THEN [st EXCEPT !.out = "RuntimeError"] ELSE st
    [] node.k = "AugAssign" ->
         LET v == Eval(node.e, st.g, st.mods)
         IN  IF node.n \in DOMAIN st.g /\ st.g[node.n].t = "int" /\ v.t = "int"
               THEN [st EXCEPT !.g = Bind(st.g, node.n, IntV(st.g[node.n].v + v.v))]
               ELSE [st EXCEPT !.out = "RuntimeError"]

\* exec(code, g, g): the statements in order, stopping at the first that raises.
RECURSIVE ExecNodes(_, _, _, _)
ExecNodes(nodes, i, st, disk) ==
  IF i > Len(nodes) \/ st.out # "ok" THEN st
  ELSE ExecNodes(nodes, i + 1, ExecNode(nodes[i], st, disk), disk)

(***************************************************************************)
(* parse.py: normalisation of the input.                                   *)
(***************************************************************************)
\* src.rstrip('\n') + '\n': the trailing empty lines go, one newline stays.
_sanitise(src) ==
  LET keep == {i \in 1..Len(src) : src[i].k # "blank"}
      n == IF keep = {} THEN 0 ELSE CHOOSE i \in keep : \A j \in keep : j <= i
  IN  IF n = 0 THEN <<Blank>> ELSE SubSeq(src, 1, n)

_is_comment_or_blank(line) == line.k = "blank" \/ line.k = "cmt"

(***************************************************************************)
(* difflib.ndiff(old_lines, new_lines).  SequenceMatcher without junk:     *)
(* find_longest_match returns the longest block a[i:i+k] = b[j:j+k] of the *)
(* window, the earliest in a and then in b among the longest;              *)
(* get_matching_blocks recurses to the left and to the right of it.  The   *)
(* lines of b outside every matching block are the '+ ' lines of the       *)
(* delta.  Indices are 0-based and windows half-open, as in difflib.       *)
(***************************************************************************)
BlockAt(a, b, i, j, k) == \A d \in 0..(k - 1) : a[i + d + 1] = b[j + d + 1]

Blocks(a, b, alo, ahi, blo, bhi) ==
  {c \in (alo..(ahi - 1)) \X (blo..(bhi - 1)) \X (1..(ahi - alo)) :
     /\ c[1] + c[3] <= ahi
     /\ c[2] + c[3] <= bhi
     /\ BlockAt(a, b, c[1], c[2], c[3])}

Better(c, d) ==
  \/ c[3] > d[3]
  \/ c[3] = d[3] /\ c[1] < d[1]
  \/ c[3] = d[3] /\ c[1] = d[1] /\ c[2] <= d[2]

find_longest_match(a, b, alo, ahi, blo, bhi) ==
  LET cs == Blocks(a, b, alo, ahi, blo, bhi)
  IN  IF cs = {} THEN <<alo, blo, 0>>
      ELSE CHOOSE c \in cs : \A d \in cs : Better(c, d)

\* The indices of b that get_matching_blocks covers in the window.
RECURSIVE MatchedB(_, _, _, _, _, _)
MatchedB(a, b, alo, ahi, blo, bhi) ==
  LET m == find_longest_match(a, b, alo, ahi, blo, bhi)
      i == m[1]
      j == m[2]
      k == m[3]
  IN  IF k = 0 THEN {}
      ELSE (j..(j + k - 1))
             \cup (IF alo < i /\ blo < j THEN MatchedB(a, b, alo, i, blo, j) ELSE {})
             \cup (IF i + k < ahi /\ j + k < bhi
                     THEN MatchedB(a, b, i + k, ahi, j + k, bhi) ELSE {})

\* The 0-based indices of the lines of b that ndiff tags '+ '.
ndiff_plus(a, b) == (0..(Len(b) - 1)) \ MatchedB(a, b, 0, Len(a), 0, Len(b))

(***************************************************************************)
(* parse.py: _scan.  _Stmt records; idx, start and end are 0-based.        *)
(***************************************************************************)
is_def_node(node) == node.k = "FunctionDef"

provides_of(node) ==
  IF is_def_node(node) THEN {node.n}
  ELSE IF node.k = "Assign" THEN {node.n}
  ELSE IF node.k = "AugAssign" THEN {node.n}
  ELSE IF node.k = "Import" THEN {node.n}
  ELSE {}

depends_of(node) ==
  IF is_def_node(node) \/ node.k = "Import" THEN {}
  ELSE Loads(node.e) \cup (IF node.k = "AugAssign" THEN {node.n} ELSE {})

_Stmt(lines, node, i) ==
  [idx |-> i,
   start |-> node.lineno - 1,
   end |-> node.end_lineno - 1,
   src |-> SubSeq(lines, node.lineno, node.end_lineno),
   provides |-> provides_of(node),
   depends |-> depends_of(node),
   is_def |-> is_def_node(node)]

_scan(lines) ==
  LET body == ast_parse(lines)
  IN  [i \in 1..Len(body) |-> _Stmt(lines, body[i], i - 1)]

(***************************************************************************)
(* parse.py: affected_snippet, stage by stage.                             *)
(***************************************************************************)
\* 1. diff -> line numbers changed in new
changed_lines_of(old_lines, new_lines) ==
  {ln \in ndiff_plus(old_lines, new_lines) : ~_is_comment_or_blank(new_lines[ln + 1])}

\* 2. seed dirty sets
direct_dirty_ids_of(stmts, changed_lines) ==
  {stmts[i].idx : i \in {i \in 1..Len(stmts) :
                           \E ln \in changed_lines :
                             stmts[i].start <= ln /\ ln <= stmts[i].end}}

syms_of(stmts, ids) ==
  UNION {stmts[i].provides : i \in {i \in 1..Len(stmts) : stmts[i].idx \in ids}}

\* PropagatePass without `dirty_syms |= s.provides`.
RECURSIVE PropagatePass_keeps_syms(_, _, _)
PropagatePass_keeps_syms(stmts, i, d) ==
  IF i > Len(stmts) THEN d
  ELSE IF stmts[i].idx \in d.dirty_ids THEN PropagatePass_keeps_syms(stmts, i + 1, d)
  ELSE IF stmts[i].depends \cap d.dirty_syms # {}
    THEN PropagatePass_keeps_syms(stmts, i + 1,
           [d EXCEPT !.dirty_ids = @ \cup {stmts[i].idx}, !.changed = TRUE])
  ELSE PropagatePass_keeps_syms(stmts, i + 1, d)

\* 3. dependency propagation: one pass of the for loop from statement i on
RECURSIVE PropagatePass(_, _, _)
PropagatePass(stmts, i, d) ==
  IF i > Len(stmts) THEN d
  ELSE IF stmts[i].idx \in d.dirty_ids THEN PropagatePass(stmts, i + 1, d)
  ELSE IF stmts[i].depends \cap d.dirty_syms # {}
    THEN PropagatePass(stmts, i + 1,
           [d EXCEPT !.dirty_ids = @ \cup {stmts[i].idx},
                     !.dirty_syms = @ \cup stmts[i].provides,
                     !.changed = TRUE])
  ELSE PropagatePass(stmts, i + 1, d)

\* Propagate with `if changed` for `while changed`: one pass only.
Propagate_one_pass(stmts, d) ==
  PropagatePass(stmts, 1, [d EXCEPT !.changed = FALSE, !.passes = @ + 1])

\* the while loop: passes until one adds nothing
RECURSIVE Propagate(_, _)
Propagate(stmts, d) ==
  LET r == PropagatePass(stmts, 1, [d EXCEPT !.changed = FALSE, !.passes = @ + 1])
  IN  IF r.changed THEN Propagate(stmts, r) ELSE r

\* SweepFrom without the test `stmts[j].start == stmts[j - 1].end + 1`.
RECURSIVE SweepFrom_across_gaps(_, _, _)
SweepFrom_across_gaps(stmts, j, ids) ==
  IF j < Len(stmts)
    THEN IF stmts[j + 1].is_def THEN ids
         ELSE SweepFrom_across_gaps(stmts, j + 1, ids \cup {stmts[j + 1].idx})
    ELSE ids

\* SweepFrom without the `if stmts[j].is_def: break`.
RECURSIVE SweepFrom_pulls_defs(_, _, _)
SweepFrom_pulls_defs(stmts, j, ids) ==
  IF j < Len(stmts) /\ stmts[j + 1].start = stmts[j].end + 1
    THEN SweepFrom_pulls_defs(stmts, j + 1, ids \cup {stmts[j + 1].idx})
    ELSE ids

\* 4. the inner while loop of the contiguity sweep, from position j (0-based)
RECURSIVE SweepFrom(_, _, _)
SweepFrom(stmts, j, ids) ==
  IF j < Len(stmts) /\ stmts[j + 1].start = stmts[j].end + 1
    THEN IF stmts[j + 1].is_def THEN ids
         ELSE SweepFrom(stmts, j + 1, ids \cup {stmts[j + 1].idx})
    ELSE ids

\* the outer for loop of the sweep, from position i (0-based)
RECURSIVE Sweep(_, _, _, _)
Sweep(stmts, i, direct_dirty_ids, ids) ==
  IF i >= Len(stmts) THEN ids
  ELSE IF stmts[i + 1].idx \notin direct_dirty_ids \/ stmts[i + 1].is_def
    THEN Sweep(stmts, i + 1, direct_dirty_ids, ids)
  ELSE Sweep(stmts, i + 1, direct_dirty_ids, SweepFrom(stmts, i + 1, ids))

\* 5. build snippet
RECURSIVE Join(_, _, _)
Join(stmts, i, ids) ==
  IF i > Len(stmts) THEN <<>>
  ELSE (IF stmts[i].idx \in ids THEN stmts[i].src ELSE <<>>) \o Join(stmts, i + 1, ids)

NoAnalysis ==
  [out |-> "none", changed_lines |-> {}, stmts |-> <<>>, direct_dirty_ids |-> {},
   propagated_ids |-> {}, dirty_syms |-> {}, passes |-> 0, dirty_ids |-> {},
   snippet |-> <<>>]

affected_snippet(old_src, new_src) ==
  LET old_lines == _sanitise(old_src)
      new_lines == _sanitise(new_src)
      changed_lines == changed_lines_of(old_lines, new_lines)
  IN  IF ~Parses(new_lines)
        THEN [NoAnalysis EXCEPT !.out = "SyntaxError", !.changed_lines = changed_lines]
      ELSE
        LET stmts == _scan(new_lines)
            direct == direct_dirty_ids_of(stmts, changed_lines)
            p == Propagate(stmts, [dirty_ids |-> direct,
                                   dirty_syms |-> syms_of(stmts, direct),
                                   changed |-> TRUE, passes |-> 0])
            dirty_ids == Sweep(stmts, 0, direct, p.dirty_ids)
        IN  [out |-> "ok", changed_lines |-> changed_lines, stmts |-> stmts,
             direct_dirty_ids |-> direct, propagated_ids |-> p.dirty_ids,
             dirty_syms |-> p.dirty_syms, passes |-> p.passes,
             dirty_ids |-> dirty_ids, snippet |-> Join(stmts, 1, dirty_ids)]

(***************************************************************************)
(* context.py: Config, _exec, _execute_fresh, run, globals_of.             *)
(***************************************************************************)
Config(execute_imports, define_functions, run_code, reload_modules) ==
  [execute_imports |-> execute_imports, define_functions |-> define_functions,
   run_code |-> run_code, reload_modules |-> reload_modules]

\* Config(): the defaults of Config.__init__; run's cfg=None becomes Config().
DefaultConfig == Config(TRUE, TRUE, TRUE, FALSE)

\* The modules bound in namespace g.
BoundModules(g) == {g[n].e.r : n \in {n \in DOMAIN g : g[n].t = "mod"}}

\* for name, obj in g.items(): if isinstance(obj, ModuleType): g[name] = reload(obj)
reload_all(g, mods, disk) ==
  [m \in DOMAIN mods |-> IF m \in BoundModules(g) THEN disk[m] ELSE mods[m]]

_exec(src, g, cfg, mods, disk) ==
  IF StripIsEmpty(src) THEN [g |-> g, mods |-> mods, out |-> "ok"]
  ELSE
    LET mods1 == IF cfg.reload_modules THEN reload_all(g, mods, disk) ELSE mods
    IN  IF ~Parses(src) THEN [g |-> g, mods |-> mods1, out |-> "SyntaxError"]
        ELSE ExecNodes(ast_parse(src), 1, [g |-> g, mods |-> mods1, out |-> "ok"], disk)

\* keep, for one node of module.body
keep_node(node, cfg) ==
  IF node.k = "Import" THEN cfg.execute_imports
  ELSE IF node.k = "FunctionDef" THEN cfg.define_functions
  ELSE cfg.run_code

\* selected_chunks joined: the lines of every kept node, node by node
RECURSIVE selected_chunks(_, _, _, _)
selected_chunks(lines, body, i, cfg) ==
  IF i > Len(body) THEN <<>>
  ELSE (IF keep_node(body[i], cfg)
          THEN SubSeq(lines, body[i].lineno, body[i].end_lineno) ELSE <<>>)
         \o selected_chunks(lines, body, i + 1, cfg)

\* The fresh namespace {'__name__': '__main__'} binds no name of the script and is
\* written <<>>; __name__ and __builtins__ are left out of every namespace.
_execute_fresh(src, cfg, mods, disk) ==
  IF cfg.execute_imports /\ cfg.define_functions /\ cfg.run_code
    THEN _exec(src, <<>>, cfg, mods, disk)
  ELSE IF ~Parses(src) THEN [g |-> <<>>, mods |-> mods, out |-> "SyntaxError"]
  ELSE _exec(selected_chunks(src, ast_parse(src), 1, cfg), <<>>, cfg, mods, disk)

\* Arguments of run: a context key, a file path or raw source text.  text is the
\* argument read as source: a key (hex digits) or a path ('a.py') is an expression
\* on a name nothing binds, and a key of decimal digits only is a number.
AsName   == <<Code(<<Expr(Name("k"))>>)>>
AsNumber == <<Code(<<Expr(Const(1))>>)>>
KeyArg(key)   == [form |-> "key", key |-> key, path |-> "", text |-> AsName]
DigitKeyArg(key) == [form |-> "key", key |-> key, path |-> "", text |-> AsNumber]
PathArg(path) == [form |-> "path", key |-> 0, path |-> path, text |-> AsName]
TextArg(text) == [form |-> "text", key |-> 0, path |-> "", text |-> text]

\* src_text of run: the file's text for the path of a file, else the argument
\* itself.
src_text_of(arg, files) ==
  IF arg.form = "path" /\ arg.path \in DOMAIN files THEN files[arg.path]
  ELSE arg.text

\* uuid.uuid4().hex: a key no context is registered under.
_new_key(C) == CHOOSE key \in 1..(Cardinality(DOMAIN C) + 1) : key \notin DOMAIN C

Raise(C, mods, out) == [C |-> C, mods |-> mods, out |-> out, key |-> 0]

\* ctx['src'] += '\n' + patch
Appended(src, patch) == src \o <<Blank>> \o patch

\* run_existing without the `if patch:` test.
run_existing_any_patch(C, mods, disk, key, patch) ==
  LET ctx == C[key]
      r == _exec(patch, ctx.globals, ctx.cfg, mods, disk)
  IN  IF r.out # "ok"
        THEN Raise([C EXCEPT ![key].globals = r.g], r.mods, r.out)
        ELSE [C |-> [C EXCEPT ![key].globals = r.g,
                              ![key].src = Appended(ctx.src, patch)],
              mods |-> r.mods, out |-> "ok", key |-> key]

\* run_existing that runs the patch on a copy of the namespace and keeps the copy
\* only when the patch succeeds.
run_existing_rolls_back(C, mods, disk, key, patch) ==
  LET ctx == C[key]
  IN  IF patch = <<>> THEN [C |-> C, mods |-> mods, out |-> "ok", key |-> key]
      ELSE
        LET r == _exec(patch, ctx.globals, ctx.cfg, mods, disk)
        IN  IF r.out # "ok"
              THEN Raise(C, r.mods, r.out)
              ELSE [C |-> [C EXCEPT ![key].globals = r.g,
                                    ![key].src = Appended(ctx.src, patch)],
                    mods |-> r.mods, out |-> "ok", key |-> key]

\* run_existing that passes the patch through the policy filter of creation.
run_existing_filtered(C, mods, disk, key, patch) ==
  LET ctx == C[key]
      kept == IF Parses(patch) /\ ~(ctx.cfg.execute_imports /\ ctx.cfg.define_functions /\ ctx.cfg.run_code)
                THEN selected_chunks(patch, ast_parse(patch), 1, ctx.cfg) ELSE patch
  IN  IF patch = <<>> THEN [C |-> C, mods |-> mods, out |-> "ok", key |-> key]
      ELSE
        LET r == _exec(kept, ctx.globals, ctx.cfg, mods, disk)
        IN  IF r.out # "ok"
              THEN Raise([C EXCEPT ![key].globals = r.g], r.mods, r.out)
              ELSE [C |-> [C EXCEPT ![key].globals = r.g,
                                    ![key].src = Appended(ctx.src, patch)],
                    mods |-> r.mods, out |-> "ok", key |-> key]

\* run_existing on a store whose contexts all hold one namespace object: what the
\* patch does to the namespace of key shows under every key.
run_existing_shared(C, mods, disk, key, patch) ==
  LET ctx == C[key]
  IN  IF patch = <<>> THEN [C |-> C, mods |-> mods, out |-> "ok", key |-> key]
      ELSE
        LET r == _exec(patch, ctx.globals, ctx.cfg, mods, disk)
            all == [k \in DOMAIN C |-> [C[k] EXCEPT !.globals = r.g]]
        IN  IF r.out # "ok"
              THEN Raise(all, r.mods, r.out)
              ELSE [C |-> [all EXCEPT ![key].src = Appended(ctx.src, patch)],
                    mods |-> r.mods, out |-> "ok", key |-> key]

\* run, on an existing context.  `if patch` is false of None and of ''; both are <<>>.
run_existing(C, mods, disk, key, patch) ==
  LET ctx == C[key]
  IN  IF patch = <<>> THEN [C |-> C, mods |-> mods, out |-> "ok", key |-> key]
      ELSE
        LET r == _exec(patch, ctx.globals, ctx.cfg, mods, disk)
        IN  IF r.out # "ok"
              THEN Raise([C EXCEPT ![key].globals = r.g], r.mods, r.out)
              ELSE [C |-> [C EXCEPT ![key].globals = r.g,
                                    ![key].src = Appended(ctx.src, patch)],
                    mods |-> r.mods, out |-> "ok", key |-> key]

\* run_new with a key made from the source: the same source gets the same key.
run_new_by_source(C, mods, disk, src_text, patch, cfg) ==
  LET f == _execute_fresh(src_text, cfg, mods, disk)
      same == {k \in DOMAIN C : /\ Len(src_text) <= Len(C[k].src)
                                /\ SubSeq(C[k].src, 1, Len(src_text)) = src_text}
      key == IF same = {} THEN _new_key(C) ELSE CHOOSE k \in same : TRUE
      made == [k \in DOMAIN C \cup {key} |->
                 IF k = key THEN [globals |-> f.g, src |-> src_text, cfg |-> cfg]
                 ELSE C[k]]
  IN  IF f.out # "ok" THEN Raise(C, f.mods, f.out)
      ELSE IF patch = <<>> THEN [C |-> made, mods |-> f.mods, out |-> "ok", key |-> key]
      ELSE run_existing(made, f.mods, disk, key, patch)

\* run_new that registers the context before it executes the source.
run_new_registers_first(C, mods, disk, src_text, patch, cfg) ==
  LET f == _execute_fresh(src_text, cfg, mods, disk)
      key == _new_key(C)
      made == [k \in DOMAIN C \cup {key} |->
                 IF k = key THEN [globals |-> f.g, src |-> src_text, cfg |-> cfg]
                 ELSE C[k]]
  IN  IF f.out # "ok" THEN Raise(made, f.mods, f.out)
      ELSE IF patch = <<>> THEN [C |-> made, mods |-> f.mods, out |-> "ok", key |-> key]
      ELSE run_existing(made, f.mods, disk, key, patch)

\* run, creating a context.
run_new(C, mods, disk, src_text, patch, cfg) ==
  LET f == _execute_fresh(src_text, cfg, mods, disk)
      key == _new_key(C)
      made == [k \in DOMAIN C \cup {key} |->
                 IF k = key THEN [globals |-> f.g, src |-> src_text, cfg |-> cfg]
                 ELSE C[k]]
  IN  IF f.out # "ok" THEN Raise(C, f.mods, f.out)
      ELSE IF patch = <<>> THEN [C |-> made, mods |-> f.mods, out |-> "ok", key |-> key]
      ELSE run_existing(made, f.mods, disk, key, patch)

\* run that lets the cfg of a call on an existing key replace the context's cfg.
run_takes_cfg(C, mods, disk, files, ctx_or_src, patch, cfg) ==
  IF ctx_or_src.form = "key" /\ ctx_or_src.key \in DOMAIN C
    THEN run_existing([C EXCEPT ![ctx_or_src.key].cfg = cfg], mods, disk,
                      ctx_or_src.key, patch)
    ELSE run_new(C, mods, disk, src_text_of(ctx_or_src, files), patch, cfg)

run(C, mods, disk, files, ctx_or_src, patch, cfg) ==
  IF ctx_or_src.form = "key" /\ ctx_or_src.key \in DOMAIN C
    THEN run_existing(C, mods, disk, ctx_or_src.key, patch)
    ELSE run_new(C, mods, disk, src_text_of(ctx_or_src, files), patch, cfg)

\* globals_of on a store that makes an empty context for a key it does not hold.
globals_of_default(C, key) ==
  LET made == [k \in DOMAIN C \cup {key} |->
                 IF k \in DOMAIN C THEN C[k]
                 ELSE [globals |-> <<>>, src |-> <<>>, cfg |-> DefaultConfig]]
  IN  [C |-> made, out |-> "ok", key |-> key, ns |-> made[key].globals, live |-> FALSE]

\* globals_of that hands out the namespace object itself.
globals_of_live(C, key) ==
  IF key \in DOMAIN C
    THEN [C |-> C, out |-> "ok", key |-> key, ns |-> C[key].globals, live |-> TRUE]
    ELSE [C |-> C, out |-> "KeyError", key |-> 0, ns |-> <<>>, live |-> FALSE]

\* globals_of: _CTX[key]['globals'].copy(), or KeyError from the lookup in the
\* plain dict _CTX.  C is the store after the call; live tells whether the mapping
\* handed out is the namespace object of the context (it is a copy: never).
globals_of(C, key) ==
  IF key \in DOMAIN C
    THEN [C |-> C, out |-> "ok", key |-> key, ns |-> C[key].globals, live |-> FALSE]
    ELSE [C |-> C, out |-> "KeyError", key |-> 0, ns |-> <<>>, live |-> FALSE]

(***************************************************************************)
(* dev_watchdog.py: _ChangeHandler.on_modified and _debounced.             *)
(***************************************************************************)
\* _wrapped that also calls fn when exactly `wait` has passed.
_wrapped_at_wait(d, files, t, wait) ==
  LET all == d.pending \cup files
  IN  IF t - d.last_call >= wait
        THEN [last_call |-> t, pending |-> {}, sent |-> all, called |-> TRUE]
        ELSE [last_call |-> d.last_call, pending |-> all, sent |-> {}, called |-> FALSE]

\* _wrapped of _debounced(fn, wait), called with files when time.time() reads t;
\* d holds the closure's last_call[0] and pending.  called: fn(sent) was invoked.
_wrapped(d, files, t, wait) ==
  LET all == d.pending \cup files
  IN  IF t - d.last_call > wait
        THEN [last_call |-> t, pending |-> {}, sent |-> all, called |-> TRUE]
        ELSE [last_call |-> d.last_call, pending |-> all, sent |-> {}, called |-> FALSE]

\* on_modified without the test `if p in self._files`.
on_modified_unfiltered(d, watched, p, t, wait) == _wrapped(d, {p}, t, wait)

\* _ChangeHandler.on_modified: events of files outside self._files are ignored.
on_modified(d, watched, p, t, wait) ==
  IF p \in watched THEN _wrapped(d, {p}, t, wait)
  ELSE [last_call |-> d.last_call, pending |-> d.pending, sent |-> {}, called |-> FALSE]

\* ctx['src'] += '\n' + patch that reads and writes the history in one step.
stored_history_atomic(read, current, patch) == Appended(current, patch)

\* ctx['src'] += '\n' + patch: the history stored is the history read, with the
\* patch appended, whatever the history is by the time of the store.
stored_history(read, current, patch) == Appended(read, patch)

(***************************************************************************)
(* Inputs.                                                                 *)
(***************************************************************************)
Modules == {"m"}

x_is_1  == Code(<<Assign("x", Const(1))>>)                \* x = 1
x_is_2  == Code(<<Assign("x", Const(2))>>)                \* x = 2
y_is_1  == Code(<<Assign("y", Const(1))>>)                \* y = 1
y_of_x  == Code(<<Assign("y", Add("x", 1))>>)             \* y = x + 1
z_of_y  == Code(<<Assign("z", Add("y", 1))>>)             \* z = y + 1
x_inc_1 == Code(<<AugAssign("x", Const(1))>>)             \* x += 1
x_inc_2 == Code(<<AugAssign("x", Const(2))>>)             \* x += 2
z_call  == Code(<<Assign("z", Call("f"))>>)               \* z = f()
x_call  == Code(<<Assign("x", Call("f"))>>)               \* x = f()
ret_x   == Ret(Add("x", 1))                               \*   return x + 1
ret_1   == Ret(Const(1))                                  \*   return 1
x_then_y == Code(<<Assign("x", Const(1)), Assign("y", Add("x", 1))>>)  \* x = 1; y = x + 1
x2_then_y == Code(<<Assign("x", Const(2)), Assign("y", Add("x", 1))>>) \* x = 2; y = x + 1
import_m == Code(<<Import("m")>>)                         \* import m
x_of_m  == Code(<<Assign("x", Attr("m"))>>)               \* x = m.foo()
m_then_x == Code(<<Import("m"), Assign("x", Const(1))>>)  \* import m; x = 1
x_named_1 == Code(<<NamedExpr("x", Const(1))>>)           \* (x := 1)
x_named_2 == Code(<<NamedExpr("x", Const(2))>>)           \* (x := 2)
f_of_x  == DefDefault("f", Name("x"))                     \* def f(a=x):

\* The lines an edit writes.
LineAlphabet ==
  {Blank, Cmt("c"), x_is_1, x_is_2, y_of_x, x_inc_1, x_inc_2, Def("f"), ret_x,
   z_call, x2_then_y, x_named_2, f_of_x}

\* The texts an editing session starts from.
BaseSources ==
  {<<x_is_1, y_of_x, Blank, z_of_y>>,
   <<x_is_1, Blank, x_inc_1>>,
   <<x_is_1, Def("f"), ret_x, z_call>>,
   <<x_is_1, y_is_1, Blank, z_of_y>>,
   <<x_is_1, x_is_1, Cmt("c")>>,
   <<x_then_y, z_of_y>>,
   <<x_is_1, y_is_1, x_is_1, x_is_1>>,
   <<x_named_1, Blank, y_of_x>>,
   <<x_is_1, Blank, f_of_x, ret_1>>,
   <<z_of_y, y_of_x, x_is_1>>}

\* The module files of the analyser's runs: never edited.
FixedDisk == [m \in Modules |-> 1]
Unloaded  == [m \in Modules |-> 0]

\* The arguments of the store's calls: run(source, patch, cfg) creating a
\* context, and the patches and cfgs of run(key, patch, cfg).
ReloadConfig == Config(TRUE, TRUE, TRUE, TRUE)

Creation(text, patch, cfg) == [arg |-> TextArg(text), patch |-> patch, cfg |-> cfg]

Creations ==
  {Creation(<<import_m, x_of_m>>, <<>>, ReloadConfig),
   Creation(<<import_m, x_of_m>>, <<>>, DefaultConfig),
   Creation(<<x_is_1, Def("f"), ret_x>>, <<>>, DefaultConfig),
   Creation(<<x_is_1, Def("f"), ret_x>>, <<x_of_m>>, DefaultConfig),
   Creation(<<m_then_x, Def("f"), ret_x>>, <<>>, Config(FALSE, TRUE, TRUE, FALSE)),
   Creation(<<import_m, Def("f"), Blank, ret_x, y_is_1>>, <<>>,
            Config(TRUE, FALSE, TRUE, FALSE)),
   Creation(<<import_m, y_is_1>>, <<>>, Config(FALSE, TRUE, FALSE, FALSE)),
   Creation(<<y_of_x>>, <<>>, DefaultConfig),
   Creation(<<ret_1>>, <<>>, DefaultConfig)}

Patches ==
  {<<>>, <<Blank>>, <<y_is_1, x_call>>, <<x_of_m>>, <<ret_1>>,
   <<import_m, Def("f"), ret_1>>}

ReuseCfgs == {DefaultConfig, ReloadConfig}

\* run(arg) on the path of a file, on a path that names no file, and on keys no
\* context was ever registered under.
StrayKey == 0
StrayCalls ==
  {[arg |-> a, patch |-> <<>>, cfg |-> DefaultConfig] :
     a \in {PathArg("a.py"), PathArg("b.py"), KeyArg(StrayKey), DigitKeyArg(StrayKey)}}

Keys == 1..MaxCalls

Files == [p \in {"a.py"} |-> <<x_is_1>>]

\* The files given to watch_files, and the files of the directories they are in.
Watched == {"a.py", "b.py"}
DirFiles == Watched \cup {"a.py~"}

\* The source of the context that concurrent callers share, and their patches.
RaceSource == <<x_is_1>>
RacePatches == {<<y_of_x, z_of_y>>, <<x_is_2, y_is_1>>}

(***************************************************************************)
(* State.                                                                  *)
(***************************************************************************)
VARIABLES
  old_src,      \* the text before the edits
  new_src,      \* the text after the edits
  edits,        \* number of edits made
  cosmetic,     \* every edit so far added or rewrote a blank or comment line
  pc,           \* "edit", "analysed", "applied": where the session stands
  res,          \* what affected_snippet(old_src, new_src) computed
  conv,         \* the namespaces of the patched run and of the run from scratch
  _CTX,         \* key -> [globals, src, cfg]
  sys_modules,  \* module -> version loaded (0: not loaded)
  disk,         \* module -> version of its file
  call,         \* the last call made to the store
  ret,          \* what it returned or raised
  ncalls,       \* number of calls made
  cfg0,         \* key -> the cfg its context was created with
  now,          \* what time.time() reads
  last_call,    \* last_call[0] of _debounced
  pending,      \* pending of _debounced
  hits,         \* the invocations of the user callback: [t, files]
  events,       \* the file events delivered so far: [t, p, called]
  threads,      \* thread -> where it stands in its call of run or globals_of
  xlog          \* the threads, in the order in which they executed statements

analyser == <<old_src, new_src, edits, cosmetic, pc, res, conv>>
store == <<_CTX, sys_modules, disk, call, ret, ncalls, cfg0>>
watcher == <<now, last_call, pending, hits, events>>
racing == <<threads, xlog>>
vars == <<old_src, new_src, edits, cosmetic, pc, res, conv,
          _CTX, sys_modules, disk, call, ret, ncalls, cfg0,
          now, last_call, pending, hits, events, threads, xlog>>

NoCall == [op |-> "none", arg |-> KeyArg(0), patch |-> <<>>, cfg |-> DefaultConfig]
NoRet == [out |-> "none", key |-> 0, ns |-> <<>>, live |-> FALSE]
NoConv == [old |-> "none", patched |-> "none", fresh |-> "none",
           g_old |-> <<>>, g_patched |-> <<>>, g_fresh |-> <<>>]

StoreInit ==
  /\ _CTX = <<>>
  /\ sys_modules = Unloaded
  /\ disk = FixedDisk
  /\ call = NoCall
  /\ ret = NoRet
  /\ ncalls = 0
  /\ cfg0 = <<>>

\* watch_files has built the handler: last_call = [0.0], pending = set(); the
\* clock reads a time of day, far more than `wait` after 0.
Epoch == Wait + 1

WatcherInit ==
  /\ now = Epoch
  /\ last_call = 0
  /\ pending = {}
  /\ hits = <<>>
  /\ events = <<>>

\* The callers of the store.
Threads == {1, 2}

Idle == [pc |-> "idle", op |-> "none", key |-> 0, patch |-> <<>>, i |-> 0,
         read |-> <<>>, out |-> "none", ns |-> <<>>, during |-> {}]

ThreadsInit ==
  /\ threads = [t \in Threads |-> Idle]
  /\ xlog = <<>>

AnalyserIdle ==
  /\ old_src = <<>>
  /\ new_src = <<>>
  /\ edits = 0
  /\ cosmetic = TRUE
  /\ pc = "edit"
  /\ res = NoAnalysis
  /\ conv = NoConv

(***************************************************************************)
(* The editing session: a text is edited, affected_snippet is computed     *)
(* from the old and the new text, and the snippet is run in the context of *)
(* the old text (tests/test_context.py, test_patch_via_affected_snippet).  *)
(***************************************************************************)
InitParse ==
  /\ old_src \in BaseSources
  /\ new_src = old_src
  /\ edits = 0
  /\ cosmetic = TRUE
  /\ pc = "edit"
  /\ res = NoAnalysis
  /\ conv = NoConv
  /\ StoreInit
  /\ WatcherInit
  /\ ThreadsInit

Edited(text, noise) ==
  /\ pc = "edit"
  /\ edits < MaxEdits
  /\ new_src' = text
  /\ edits' = edits + 1
  /\ cosmetic' = (cosmetic /\ noise)
  /\ UNCHANGED <<old_src, pc, res, conv>>
  /\ UNCHANGED store
  /\ UNCHANGED watcher
  /\ UNCHANGED racing

InsertLine ==
  \E i \in 0..Len(new_src), l \in LineAlphabet :
    Edited(SubSeq(new_src, 1, i) \o <<l>> \o SubSeq(new_src, i + 1, Len(new_src)),
           Cosmetic(l))

DeleteLine ==
  \E i \in 1..Len(new_src) :
    Edited(SubSeq(new_src, 1, i - 1) \o SubSeq(new_src, i + 1, Len(new_src)), FALSE)

ReplaceLine ==
  \E i \in 1..Len(new_src) :
    \E l \in LineAlphabet \ {new_src[i]} :
      Edited([new_src EXCEPT ![i] = l], Cosmetic(new_src[i]) /\ Cosmetic(l))

Analyse ==
  /\ pc = "edit"
  /\ res' = affected_snippet(old_src, new_src)
  /\ pc' = "analysed"
  /\ UNCHANGED <<old_src, new_src, edits, cosmetic, conv>>
  /\ UNCHANGED store
  /\ UNCHANGED watcher
  /\ UNCHANGED racing

\* key = run(old); run(key, patch); globals_of(key), beside run(new).
Converge(old, new, patch) ==
  LET o == _execute_fresh(old, DefaultConfig, Unloaded, FixedDisk)
      p == _exec(patch, o.g, DefaultConfig, o.mods, FixedDisk)
      f == _execute_fresh(new, DefaultConfig, Unloaded, FixedDisk)
  IN  [old |-> o.out, patched |-> IF o.out = "ok" THEN p.out ELSE "none",
       fresh |-> f.out, g_old |-> o.g,
       g_patched |-> IF o.out = "ok" THEN p.g ELSE <<>>, g_fresh |-> f.g]

ApplyPatch ==
  /\ pc = "analysed"
  /\ res.out = "ok"
  /\ conv' = Converge(old_src, new_src, res.snippet)
  /\ pc' = "applied"
  /\ UNCHANGED <<old_src, new_src, edits, cosmetic, res>>
  /\ UNCHANGED store
  /\ UNCHANGED watcher
  /\ UNCHANGED racing

NextParse == InsertLine \/ DeleteLine \/ ReplaceLine \/ Analyse \/ ApplyPatch

SpecParse == InitParse /\ [][NextParse]_vars

(***************************************************************************)
(* The context store: calls of run and globals_of, and edits of the module *)
(* files made outside the program.                                         *)
(***************************************************************************)
Init == AnalyserIdle /\ StoreInit /\ WatcherInit /\ ThreadsInit

Calls ==
  Creations \cup
  {[arg |-> KeyArg(k), patch |-> p, cfg |-> c] :
     k \in DOMAIN _CTX, p \in Patches, c \in ReuseCfgs}

RunCall(c) ==
  LET r == run(_CTX, sys_modules, disk, Files, c.arg, c.patch, c.cfg)
  IN  /\ ncalls < MaxCalls
      /\ _CTX' = r.C
      /\ sys_modules' = r.mods
      /\ call' = [op |-> "run", arg |-> c.arg, patch |-> c.patch, cfg |-> c.cfg]
      /\ ret' = [out |-> r.out, key |-> r.key, ns |-> <<>>, live |-> FALSE]
      /\ ncalls' = ncalls + 1
      /\ cfg0' = [k \in DOMAIN r.C |-> IF k \in DOMAIN cfg0 THEN cfg0[k] ELSE c.cfg]
      /\ UNCHANGED disk
      /\ UNCHANGED analyser
      /\ UNCHANGED watcher
      /\ UNCHANGED racing

Run == \E c \in Calls : RunCall(c)

GlobalsOf ==
  \E key \in 1..(Cardinality(DOMAIN _CTX) + 1) :
    LET r == globals_of(_CTX, key)
    IN  /\ ncalls < MaxCalls
        /\ call' = [op |-> "globals_of", arg |-> KeyArg(key), patch |-> <<>>,
                    cfg |-> DefaultConfig]
        /\ _CTX' = r.C
        /\ ret' = [out |-> r.out, key |-> r.key, ns |-> r.ns, live |-> r.live]
        /\ ncalls' = ncalls + 1
        /\ UNCHANGED <<sys_modules, disk, cfg0>>
        /\ UNCHANGED analyser
        /\ UNCHANGED watcher
        /\ UNCHANGED racing

\* What a caller can do to the mapping globals_of returned: bind a name (new or
\* bound already) or delete one.
Rebound(ns, n) == Bind(ns, n, IntV(0))
Deleted(ns, n) == [k \in DOMAIN ns \ {n} |-> ns[k]]
Mutations(ns) == {Rebound(ns, n) : n \in {"x", "w"}} \cup {Deleted(ns, n) : n \in DOMAIN ns \cap {"x"}}

\* The caller changes the mapping it got from globals_of; the namespace of the
\* context changes with it when the mapping is the namespace object itself.
MutateSnapshot ==
  \E ns \in Mutations(ret.ns) :
    /\ call.op = "globals_of"
    /\ ret.out = "ok"
    /\ ret' = [ret EXCEPT !.ns = ns]
    /\ call' = [call EXCEPT !.op = "mutate"]
    /\ _CTX' = IF ret.live THEN [_CTX EXCEPT ![ret.key].globals = ns] ELSE _CTX
    /\ UNCHANGED <<sys_modules, disk, ncalls, cfg0>>
    /\ UNCHANGED analyser
    /\ UNCHANGED watcher
    /\ UNCHANGED racing

\* The file of module m is rewritten outside the program.
EditModule ==
  \E m \in Modules :
    /\ disk[m] < MaxVer
    /\ disk' = [disk EXCEPT ![m] = @ + 1]
    /\ UNCHANGED <<_CTX, sys_modules, call, ret, ncalls, cfg0>>
    /\ UNCHANGED analyser
    /\ UNCHANGED watcher
    /\ UNCHANGED racing

Next == Run \/ GlobalsOf \/ MutateSnapshot \/ EditModule

Spec == Init /\ [][Next]_vars

(***************************************************************************)
(* The resolution of the argument of run: calls on keys, on paths and on   *)
(* source texts, among them a text equal to the text of the file.          *)
(***************************************************************************)
ResolveCalls ==
  StrayCalls
    \cup {[arg |-> TextArg(t), patch |-> p, cfg |-> DefaultConfig] :
            t \in {<<x_is_1>>, <<import_m, x_of_m>>, <<x_is_1, z_of_y>>, <<ret_1>>},
            p \in {<<>>, <<y_of_x>>}}
    \cup {[arg |-> KeyArg(k), patch |-> p, cfg |-> DefaultConfig] :
            k \in DOMAIN _CTX, p \in {<<>>, <<y_of_x>>}}

Resolve == \E c \in ResolveCalls : RunCall(c)

SpecResolve == Init /\ [][Resolve]_vars

(***************************************************************************)
(* The file watcher: the observer thread delivers the file events one by   *)
(* one to on_modified, while the clock advances.                           *)
(***************************************************************************)
InitWatch == AnalyserIdle /\ StoreInit /\ WatcherInit /\ ThreadsInit

Tick ==
  /\ now < MaxTime
  /\ now' = now + 1
  /\ UNCHANGED <<last_call, pending, hits, events>>
  /\ UNCHANGED analyser
  /\ UNCHANGED store
  /\ UNCHANGED racing

OnModified ==
  \E p \in DirFiles :
    LET r == on_modified([last_call |-> last_call, pending |-> pending],
                         Watched, p, now, Wait)
    IN  /\ Len(events) < MaxEvents
        /\ last_call' = r.last_call
        /\ pending' = r.pending
        /\ hits' = IF r.called THEN Append(hits, [t |-> now, files |-> r.sent]) ELSE hits
        /\ events' = Append(events, [t |-> now, p |-> p, called |-> r.called])
        /\ UNCHANGED now
        /\ UNCHANGED analyser
        /\ UNCHANGED store
        /\ UNCHANGED racing

NextWatch == Tick \/ OnModified

SpecWatch == InitWatch /\ [][NextWatch]_vars

\* The watcher with a clock that does not stop: time.time() goes on whether or not
\* files change.  File events are the environment's and get no fairness.
SpecWatchFair == InitWatch /\ [][NextWatch]_vars /\ WF_vars(Tick)

(***************************************************************************)
(* Concurrent callers: the store takes no lock, so the calls of the        *)
(* threads advance statement by statement in any order.  A context is      *)
(* created first; then each thread makes one call on its key.              *)
(***************************************************************************)
InitRace == AnalyserIdle /\ StoreInit /\ WatcherInit /\ ThreadsInit

RaceFrame ==
  /\ UNCHANGED <<disk, call, ret, ncalls, cfg0>>
  /\ UNCHANGED analyser
  /\ UNCHANGED watcher

\* key = run(source), before the threads start.
RaceCreate ==
  LET r == run(_CTX, sys_modules, disk, Files, TextArg(RaceSource), <<>>, DefaultConfig)
  IN  /\ DOMAIN _CTX = {}
      /\ _CTX' = r.C
      /\ sys_modules' = r.mods
      /\ UNCHANGED racing
      /\ RaceFrame

\* run(key, patch) up to the call of exec: the key is looked up, the patch is
\* tested, the modules are reloaded if the policy says so, the patch is compiled.
EnterRun(t) ==
  \E key \in DOMAIN _CTX, patch \in RacePatches :
    LET ctx == _CTX[key]
        entered == [Idle EXCEPT !.op = "run", !.key = key, !.patch = patch]
    IN  /\ threads[t].pc = "idle"
        /\ sys_modules' = IF ctx.cfg.reload_modules /\ ~StripIsEmpty(patch)
                             THEN reload_all(ctx.globals, sys_modules, disk)
                             ELSE sys_modules
        /\ threads' = [threads EXCEPT ![t] =
             IF StripIsEmpty(patch) THEN [entered EXCEPT !.pc = "append"]
             ELSE IF ~Parses(patch)
               THEN [entered EXCEPT !.pc = "done", !.out = "SyntaxError"]
             ELSE [entered EXCEPT !.pc = "exec"]]
        /\ UNCHANGED <<_CTX, xlog>>
        /\ RaceFrame

\* exec runs the next statement of the patch in the namespace of the key.
ExecStmt(t) ==
  LET th == threads[t]
      nodes == ast_parse(th.patch)
      r == ExecNode(nodes[th.i + 1],
                    [g |-> _CTX[th.key].globals, mods |-> sys_modules, out |-> "ok"], disk)
  IN  /\ th.pc = "exec"
      /\ th.i < Len(nodes)
      /\ _CTX' = [_CTX EXCEPT ![th.key].globals = r.g]
      /\ sys_modules' = r.mods
      /\ threads' = [threads EXCEPT ![t] =
           IF r.out # "ok" THEN [th EXCEPT !.pc = "done", !.out = r.out]
           ELSE IF th.i + 1 = Len(nodes) THEN [th EXCEPT !.i = th.i + 1, !.pc = "append"]
           ELSE [th EXCEPT !.i = th.i + 1]]
      /\ xlog' = Append(xlog, t)
      /\ RaceFrame

\* ctx['src'] += ...: the history is read ...
ReadHistory(t) ==
  /\ threads[t].pc = "append"
  /\ threads' = [threads EXCEPT ![t].read = _CTX[threads[t].key].src, ![t].pc = "store"]
  /\ UNCHANGED <<_CTX, sys_modules, xlog>>
  /\ RaceFrame

\* ... and stored with the patch appended; run returns the key.
WriteHistory(t) ==
  LET th == threads[t]
  IN  /\ th.pc = "store"
      /\ _CTX' = [_CTX EXCEPT ![th.key].src =
                    stored_history(th.read, _CTX[th.key].src, th.patch)]
      /\ threads' = [threads EXCEPT ![t].pc = "done", ![t].out = "ok"]
      /\ UNCHANGED <<sys_modules, xlog>>
      /\ RaceFrame

\* The calls of run(key, patch) in flight on key, each with the number of statements
\* of its patch executed so far and the number of statements of the patch.
InFlight(key) ==
  {[t |-> u, i |-> threads[u].i, n |-> Len(ast_parse(threads[u].patch))] :
     u \in {u \in Threads : /\ threads[u].op = "run"
                            /\ threads[u].key = key
                            /\ threads[u].pc \in {"exec", "append", "store"}}}

\* globals_of(key), called by thread t while other calls may be in flight.
ReadNamespace(t) ==
  \E key \in DOMAIN _CTX :
    LET r == globals_of(_CTX, key)
    IN  /\ threads[t].pc = "idle"
        /\ _CTX' = r.C
        /\ threads' = [threads EXCEPT ![t] =
             [Idle EXCEPT !.pc = "done", !.op = "globals_of", !.key = key,
                          !.out = r.out, !.ns = r.ns, !.during = InFlight(key)]]
        /\ UNCHANGED <<sys_modules, xlog>>
        /\ RaceFrame

NextRace ==
  \/ RaceCreate
  \/ \E t \in Threads :
       EnterRun(t) \/ ExecStmt(t) \/ ReadHistory(t) \/ WriteHistory(t) \/ ReadNamespace(t)

SpecRace == InitRace /\ [][NextRace]_vars

(***************************************************************************)
(* Properties of affected_snippet, checked under SpecParse.                *)
(***************************************************************************)
Analysed == pc # "edit" /\ res.out = "ok"

StmtIds == {res.stmts[i].idx : i \in 1..Len(res.stmts)}
StmtOf(id) == res.stmts[id + 1]

\* Statement id holds a changed line in its line range.
HoldsChangedLine(id) ==
  \E ln \in res.changed_lines : StmtOf(id).start <= ln /\ ln <= StmtOf(id).end

\* The names the top-level statements of new_src bind.
TopLevelSymbols == UNION {StmtOf(id).provides : id \in StmtIds}

\* C1. Equivalence: when old_src and new_src both run, the namespace of old_src
\* patched with affected_snippet(old_src, new_src) binds every top-level symbol of
\* new_src to the value a run of new_src from scratch binds it to.
C1_Equivalence ==
  (pc = "applied" /\ conv.old = "ok" /\ conv.fresh = "ok") =>
    /\ conv.patched = "ok"
    /\ \A n \in TopLevelSymbols :
         /\ n \in DOMAIN conv.g_patched
         /\ n \in DOMAIN conv.g_fresh
         /\ conv.g_patched[n] = conv.g_fresh[n]

\* C2, as claimed. The final dirty set holds every statement with a changed line
\* and no statement outside it depends on a name that a statement inside it provides.
C2_ClosedUnderFinalDirtySet ==
  Analysed =>
    /\ \A id \in StmtIds : HoldsChangedLine(id) => id \in res.dirty_ids
    /\ \A id \in StmtIds \ res.dirty_ids :
         StmtOf(id).depends \cap syms_of(res.stmts, res.dirty_ids) = {}

\* C2, amended. The final dirty set holds every statement with a changed line, and
\* no statement outside it depends on a name provided by a statement that is dirty
\* by a direct hit or by propagation (the statements that only the contiguity sweep
\* added are not propagated from).
C2_Conservative ==
  Analysed =>
    /\ \A id \in StmtIds : HoldsChangedLine(id) => id \in res.dirty_ids
    /\ res.propagated_ids \subseteq res.dirty_ids
    /\ \A id \in StmtIds \ res.dirty_ids :
         StmtOf(id).depends \cap syms_of(res.stmts, res.propagated_ids) = {}

\* A statement reached by propagation through another propagated statement, and a
\* statement left clean.
C2_Witness ==
  /\ Analysed
  /\ \E a \in res.propagated_ids \ res.direct_dirty_ids :
       \E b \in res.propagated_ids \ res.direct_dirty_ids :
         /\ StmtOf(b).depends \cap StmtOf(a).provides # {}
         /\ StmtOf(b).depends \cap syms_of(res.stmts, res.direct_dirty_ids) = {}
  /\ StmtIds \ res.dirty_ids # {}

\* C3. Definition non-pull-in: a definition is in the final dirty set only if its
\* line range holds a changed line or propagation reached it; the sweep adds none.
C3_DefinitionNotPulledIn ==
  Analysed =>
    \A id \in StmtIds :
      (StmtOf(id).is_def /\ id \in res.dirty_ids) =>
        (HoldsChangedLine(id) \/ id \in res.propagated_ids)

\* A definition on the line after a directly hit statement that is no definition,
\* left out of the dirty set.
C3_Witness ==
  /\ Analysed
  /\ \E id \in StmtIds :
       /\ id + 1 \in StmtIds
       /\ id \in res.direct_dirty_ids
       /\ ~StmtOf(id).is_def
       /\ StmtOf(id + 1).is_def
       /\ StmtOf(id + 1).start = StmtOf(id).end + 1
       /\ id + 1 \notin res.dirty_ids

\* C4. Comment/blank insensitivity: when every edit added or rewrote a blank or
\* comment line, no line is recorded as changed and the snippet is empty.
C4_CommentBlankInsensitive ==
  (pc # "edit" /\ cosmetic) => (res.changed_lines = {} /\ res.snippet = <<>>)

(***************************************************************************)
(* Properties of the context store, checked under Spec.                    *)
(***************************************************************************)
\* The step is a call of run.
RunStep == ncalls' = ncalls + 1 /\ call'.op = "run"

\* The step is a call of run on a key that is registered.
ReuseStep == RunStep /\ call'.arg.form = "key" /\ call'.arg.key \in DOMAIN _CTX

\* The step is a call of run that creates a context.
CreateStep == RunStep /\ ~(call'.arg.form = "key" /\ call'.arg.key \in DOMAIN _CTX)

\* The last call was run on a registered key.
LastReused == call.op = "run" /\ call.arg.form = "key" /\ call.arg.key \in DOMAIN _CTX

\* Every switch of the policy is on: the fast path of _execute_fresh.
AllSwitchesOn(cfg) == cfg.execute_imports /\ cfg.define_functions /\ cfg.run_code

\* The statements of module.body the policy keeps, in source order.
RECURSIVE EnabledNodes(_, _, _)
EnabledNodes(body, i, cfg) ==
  IF i > Len(body) THEN <<>>
  ELSE (IF keep_node(body[i], cfg) THEN <<body[i]>> ELSE <<>>)
         \o EnabledNodes(body, i + 1, cfg)

\* C5. Policy filtering at creation: a context created under a policy that does
\* not enable every switch holds the bindings made by exactly the statements of an
\* enabled class, executed in their order in the source.
C5_PolicyFiltering ==
  [][(CreateStep /\ call'.patch = <<>> /\ ret'.out = "ok"
        /\ ~AllSwitchesOn(call'.cfg)) =>
       _CTX'[ret'.key].globals =
         ExecNodes(EnabledNodes(ast_parse(src_text_of(call'.arg, Files)), 1,
                                call'.cfg), 1,
                   [g |-> <<>>, mods |-> sys_modules, out |-> "ok"], disk).g]_vars

\* C6. Idempotence of the no-op call: run(key) without a patch on a registered key
\* returns the key and changes no namespace, history, policy, key or module.
C6_NoopRun ==
  [][(ReuseStep /\ call'.patch = <<>>) =>
       /\ _CTX' = _CTX
       /\ sys_modules' = sys_modules
       /\ ret'.out = "ok" /\ ret'.key = call'.arg.key]_vars

\* run(key) was called on a context whose namespace binds names.
C6_Witness ==
  /\ LastReused
  /\ call.patch = <<>>
  /\ ret.out = "ok"
  /\ _CTX[call.arg.key].globals # <<>>

\* C7. Key reuse: run(key, patch, cfg) on a registered key returns that key when
\* it returns, registers no context and keeps every policy as captured at creation;
\* the reload of that call is decided by the creation-time reload_modules, whatever
\* cfg the call passes.
C7_KeyReuse ==
  [][ReuseStep =>
       LET key == call'.arg.key
           bound == BoundModules(_CTX[key].globals)
       IN  /\ ret'.out = "ok" => ret'.key = key
           /\ DOMAIN _CTX' = DOMAIN _CTX
           /\ \A k \in DOMAIN _CTX' : _CTX'[k].cfg = _CTX[k].cfg /\ _CTX'[k].cfg = cfg0[k]
           /\ (cfg0[key].reload_modules /\ ~StripIsEmpty(call'.patch)) =>
                \A m \in bound : sys_modules'[m] = disk[m]
           /\ ~cfg0[key].reload_modules =>
                \A m \in Modules : sys_modules[m] # 0 => sys_modules'[m] = sys_modules[m]]_vars

\* A call on a key passed reload_modules=True to a context created without it: the
\* module its namespace binds was not reloaded from the edited file.
C7_Witness ==
  /\ LastReused
  /\ call.cfg.reload_modules
  /\ ~_CTX[call.arg.key].cfg.reload_modules
  /\ ~StripIsEmpty(call.patch)
  /\ ret.out = "ok" /\ ret.key = call.arg.key
  /\ \E m \in BoundModules(_CTX[call.arg.key].globals) : sys_modules[m] # disk[m]

\* C8. Reload precedes the patch: run(key, patch) on a context with reload_modules
\* refreshes every module its namespace binds and then runs the patch against the
\* refreshed modules; on a context without reload_modules no loaded module is refreshed.
C8_ReloadBeforePatch ==
  [][(ReuseStep /\ call'.patch # <<>>) =>
       LET key == call'.arg.key
           g == _CTX[key].globals
           fresh == reload_all(g, sys_modules, disk)
       IN  IF _CTX[key].cfg.reload_modules
             THEN /\ \A m \in BoundModules(g) : sys_modules'[m] = disk[m]
                  /\ Parses(call'.patch) =>
                       _CTX'[key].globals =
                         ExecNodes(ast_parse(call'.patch), 1,
                                   [g |-> g, mods |-> fresh, out |-> "ok"], disk).g
             ELSE \A m \in Modules :
                    sys_modules[m] # 0 => sys_modules'[m] = sys_modules[m]]_vars

\* C9. Parse failure leaves state untouched: a call of run that raises SyntaxError
\* leaves every context as it was, the modules its namespace binds included, and
\* registers nothing.
C9_ParseFailureUntouched ==
  [][(RunStep /\ ret'.out = "SyntaxError") =>
       /\ _CTX' = _CTX
       /\ \A k \in DOMAIN _CTX :
            \A m \in BoundModules(_CTX[k].globals) : sys_modules'[m] = sys_modules[m]]_vars

\* The machine state after the first n statements of a patch.
Prefix(nodes, n, g, mods) ==
  ExecNodes(SubSeq(nodes, 1, n), 1, [g |-> g, mods |-> mods, out |-> "ok"], disk)

\* C10. No rollback on run-time failure: when statement n + 1 of a patch raises
\* after n statements ran, the call raises, the namespace is the one the n
\* statements left and the context stays registered under its key.
C10_NoRollback ==
  [][(ReuseStep /\ ~StripIsEmpty(call'.patch) /\ Parses(call'.patch)) =>
       LET key == call'.arg.key
           g == _CTX[key].globals
           nodes == ast_parse(call'.patch)
           mods == IF _CTX[key].cfg.reload_modules
                     THEN reload_all(g, sys_modules, disk) ELSE sys_modules
       IN  \A n \in 0..(Len(nodes) - 1) :
             (/\ Prefix(nodes, n, g, mods).out = "ok"
              /\ ExecNode(nodes[n + 1], Prefix(nodes, n, g, mods), disk).out # "ok") =>
               /\ ret'.out = "RuntimeError"
               /\ key \in DOMAIN _CTX'
               /\ _CTX'[key].globals = Prefix(nodes, n, g, mods).g]_vars

\* A patch raised after its first statement bound y.
C10_Witness ==
  /\ LastReused
  /\ ret.out = "RuntimeError"
  /\ call.patch = <<y_is_1, x_call>>
  /\ "y" \in DOMAIN _CTX[call.arg.key].globals
  /\ "f" \notin DOMAIN _CTX[call.arg.key].globals

\* Text a is the beginning of text b.
IsPrefix(a, b) == Len(a) <= Len(b) /\ SubSeq(b, 1, Len(a)) = a

\* C11. Source history is append-only and complete: a call of run keeps every
\* recorded history as a prefix of the history after the call, changes a history
\* only by appending the patch of the call, and records the patch whenever the
\* patch changed the namespace; a new context starts with its creation source.
C11_HistoryAppendOnlyComplete ==
  [][RunStep =>
       /\ \A k \in DOMAIN _CTX :
            /\ k \in DOMAIN _CTX'
            /\ IsPrefix(_CTX[k].src, _CTX'[k].src)
            /\ _CTX'[k].src # _CTX[k].src =>
                 _CTX'[k].src = Appended(_CTX[k].src, call'.patch)
            /\ _CTX'[k].globals # _CTX[k].globals =>
                 _CTX'[k].src = Appended(_CTX[k].src, call'.patch)
       /\ \A k \in DOMAIN _CTX' \ DOMAIN _CTX :
            IsPrefix(src_text_of(call'.arg, Files), _CTX'[k].src)]_vars

\* The step is the caller changing the mapping globals_of returned.
MutateStep == call.op = "globals_of" /\ call'.op = "mutate"

\* C12. The accessor returns a copy: when the caller adds, removes or rebinds a
\* name in the mapping globals_of(key) returned, a later globals_of of any key
\* returns what it would have returned and a later patch has the outcome it would
\* have had.
C12_AccessorReturnsCopy ==
  [][MutateStep =>
       /\ \A k \in DOMAIN _CTX : globals_of(_CTX', k).ns = globals_of(_CTX, k).ns
       /\ \A p \in Patches :
            run(_CTX', sys_modules', disk', Files, KeyArg(ret.key), p, DefaultConfig)
              = run(_CTX, sys_modules, disk, Files, KeyArg(ret.key), p, DefaultConfig)]_vars

\* The caller changed the mapping it got: it differs from the namespace of the key.
C12_Witness ==
  /\ call.op = "mutate"
  /\ ret.key \in DOMAIN _CTX
  /\ ret.ns # _CTX[ret.key].globals
  /\ _CTX[ret.key].globals # <<>>

\* The policy of the context disables the class of some statement of the patch.
DisabledClassIn(patch, cfg) ==
  Parses(patch) /\ \E i \in 1..Len(ast_parse(patch)) : ~keep_node(ast_parse(patch)[i], cfg)

\* C13. Patches are never filtered by policy: run(key, patch) with a patch that
\* parses executes every statement of the patch, in order and up to the first that
\* raises, whatever execute_imports, define_functions and run_code are in the
\* policy of the context.
C13_PatchNotFiltered ==
  [][(ReuseStep /\ ~StripIsEmpty(call'.patch) /\ Parses(call'.patch)) =>
       LET key == call'.arg.key
           g == _CTX[key].globals
           mods == IF _CTX[key].cfg.reload_modules
                     THEN reload_all(g, sys_modules, disk) ELSE sys_modules
           all == ExecNodes(ast_parse(call'.patch), 1,
                            [g |-> g, mods |-> mods, out |-> "ok"], disk)
       IN  /\ _CTX'[key].globals = all.g
           /\ sys_modules' = all.mods
           /\ ret'.out = all.out]_vars

\* An import and a definition of a patch took effect in a context whose policy
\* disables imports and code.
C13_Witness ==
  /\ LastReused
  /\ ret.out = "ok"
  /\ ~_CTX[call.arg.key].cfg.execute_imports
  /\ DisabledClassIn(call.patch, _CTX[call.arg.key].cfg)
  /\ {"m", "f"} \subseteq DOMAIN _CTX[call.arg.key].globals
  /\ sys_modules["m"] # 0

\* The contexts a call of run targets or creates.
Targets ==
  IF call'.arg.form = "key" /\ call'.arg.key \in DOMAIN _CTX
    THEN {call'.arg.key} ELSE DOMAIN _CTX' \ DOMAIN _CTX

\* C14. Context isolation: a call of run changes the namespace and the history of
\* the context it targets or creates only; every other registered key keeps its
\* namespace, history and policy, and a created context gets a key no context had
\* and the namespace the same call builds in an empty store.
C14_ContextIsolation ==
  [][RunStep =>
       /\ \A k \in DOMAIN _CTX \ Targets : k \in DOMAIN _CTX' /\ _CTX'[k] = _CTX[k]
       /\ Cardinality(Targets) <= 1
       /\ \A k \in DOMAIN _CTX' \ DOMAIN _CTX :
            LET alone == run(<<>>, sys_modules, disk, Files, call'.arg, call'.patch,
                             call'.cfg)
            IN  _CTX'[k] = alone.C[_new_key(<<>>)]]_vars

\* A patch bound names in one of two registered contexts; the other context has a
\* namespace of its own without them.
C14_Witness ==
  /\ LastReused
  /\ ret.out = "ok"
  /\ call.patch = <<import_m, Def("f"), ret_1>>
  /\ "f" \in DOMAIN _CTX[call.arg.key].globals
  /\ \E k \in DOMAIN _CTX \ {call.arg.key} :
       /\ _CTX[k].globals # <<>>
       /\ "f" \notin DOMAIN _CTX[k].globals
       /\ _CTX[k].src # _CTX[call.arg.key].src

\* Text a is text b with some lines removed (or none).
RECURSIVE RemovedFrom(_, _)
RemovedFrom(a, b) ==
  IF a = <<>> THEN TRUE
  ELSE IF b = <<>> THEN FALSE
  ELSE IF Head(a) = Head(b) THEN RemovedFrom(Tail(a), Tail(b))
  ELSE RemovedFrom(a, Tail(b))

\* C15. Pure deletions are not changes: when new_src is old_src with some lines
\* removed, no line is recorded as changed and the snippet is empty.
C15_PureDeletion ==
  (pc # "edit" /\ res.out = "ok" /\ RemovedFrom(new_src, old_src)) =>
    (res.changed_lines = {} /\ res.snippet = <<>>)

\* A statement without its position in a text.
Bare(node) == [k |-> node.k, n |-> node.n, e |-> node.e, d |-> node.d]

\* The statements of body whose index is in ids, in ascending index.
RECURSIVE Picked(_, _, _)
Picked(body, i, ids) ==
  IF i > Len(body) THEN <<>>
  ELSE (IF (i - 1) \in ids THEN <<Bare(body[i])>> ELSE <<>>) \o Picked(body, i + 1, ids)

\* C16. Snippet assembly: the snippet holds exactly the statements of the dirty
\* set, each once and in ascending statement index, and no statement that is not
\* dirty.
C16_SnippetAssembly ==
  Analysed =>
    /\ Parses(res.snippet)
    /\ Picked(ast_parse(res.snippet), 1, 0..Len(res.snippet))
         = Picked(ast_parse(_sanitise(new_src)), 1, res.dirty_ids)

(***************************************************************************)
(* Properties of the file watcher, checked under SpecWatch.                *)
(***************************************************************************)
\* C17. Debounce bound: two consecutive invocations of the user callback are more
\* than debounce_sec apart, and the file events that fall inside the window that an
\* invocation opens (from the invocation to debounce_sec after it) produce that one
\* invocation only.
C17_DebounceBound ==
  /\ \A i \in 1..(Len(hits) - 1) : hits[i + 1].t - hits[i].t > Wait
  /\ \A i \in 1..Len(events) :
       events[i].called =>
         \A j \in (i + 1)..Len(events) :
           events[j].t - events[i].t <= Wait => ~events[j].called

\* Two invocations, with an event of a watched file suppressed between them.
C17_Witness ==
  /\ Len(hits) = 2
  /\ \E j \in 1..Len(events) :
       /\ events[j].p \in Watched
       /\ ~events[j].called
       /\ hits[1].t < events[j].t
       /\ events[j].t - hits[1].t <= Wait

(***************************************************************************)
(* Properties of concurrent calls, checked under SpecRace.                 *)
(***************************************************************************)
\* Both threads called run on the same key and both calls returned.
BothPatched ==
  /\ \A t \in Threads : threads[t].op = "run" /\ threads[t].pc = "done" /\ threads[t].out = "ok"
  /\ threads[1].key = threads[2].key

\* The namespace and history a context has when thread t's call runs whole before
\* thread u's call.
Serial(t, u) ==
  LET c0 == run(<<>>, Unloaded, FixedDisk, Files, TextArg(RaceSource), <<>>, DefaultConfig)
      k == threads[t].key
      c1 == run(c0.C, c0.mods, disk, Files, KeyArg(k), threads[t].patch, DefaultConfig)
      c2 == run(c1.C, c1.mods, disk, Files, KeyArg(k), threads[u].patch, DefaultConfig)
  IN  c2.C[k]

\* C18. Same-key race: no lock orders two calls of run on one key.  A statement of
\* a patch runs in the namespace as the other call left it, and the history a call
\* stores is the history it read with its patch appended, so an append made by the
\* other call between the read and the store is lost.
C18_SameKeyRace ==
  [][\A t \in Threads :
       /\ (threads[t].pc = "exec" /\ threads'[t] # threads[t]) =>
            _CTX'[threads[t].key].globals =
              ExecNode(ast_parse(threads[t].patch)[threads[t].i + 1],
                       [g |-> _CTX[threads[t].key].globals, mods |-> sys_modules,
                        out |-> "ok"], disk).g
       /\ (threads[t].pc = "store" /\ threads'[t].pc = "done") =>
            _CTX'[threads[t].key].src = Appended(threads[t].read, threads[t].patch)]_vars

\* Two calls on one key returned: their statements interleaved, the namespace is
\* the one of neither order of the two calls, and the history holds one patch only.
C18_Witness ==
  /\ BothPatched
  /\ threads[1].patch # threads[2].patch
  /\ \E i \in 1..(Len(xlog) - 2) : xlog[i] # xlog[i + 1] /\ xlog[i + 1] # xlog[i + 2]
  /\ _CTX[threads[1].key].globals \notin {Serial(1, 2).globals, Serial(2, 1).globals}
  /\ Len(_CTX[threads[1].key].src) < Len(Serial(1, 2).src)
  /\ \E t \in Threads :
       _CTX[threads[1].key].src = Appended(RaceSource, threads[t].patch)

\* C19. Reads are serialized against writers: a namespace returned by globals_of
\* was read when no call of run on the key had executed some but not all of the
\* statements of its patch.
C19_ReadsSerialized ==
  \A t \in Threads :
    (threads[t].op = "globals_of" /\ threads[t].pc = "done") =>
      \A w \in threads[t].during : w.i = 0 \/ w.i = w.n

(***************************************************************************)
(* Further properties of the context store, checked under Spec.            *)
(***************************************************************************)
\* C20. Unknown key on the accessor: globals_of with a key that is not registered
\* fails with KeyError, returns no namespace, registers no context and leaves the
\* store and the loaded modules as they were.
C20_UnknownKey ==
  [][(ncalls' = ncalls + 1 /\ call'.op = "globals_of"
        /\ call'.arg.key \notin DOMAIN _CTX) =>
       /\ ret'.out = "KeyError"
       /\ ret'.ns = <<>>
       /\ _CTX' = _CTX
       /\ sys_modules' = sys_modules]_vars

\* globals_of failed on an unknown key while a context is registered.
C20_Witness ==
  /\ call.op = "globals_of"
  /\ ret.out = "KeyError"
  /\ call.arg.key \notin DOMAIN _CTX
  /\ DOMAIN _CTX # {}

(***************************************************************************)
(* Further properties of affected_snippet, checked under SpecParse.        *)
(***************************************************************************)
\* The statements after statement i that an unbroken chain reaches: each starts on
\* the line after the one before it ends, and none up to it is a definition.
Chain(i) ==
  {j \in StmtIds :
     /\ j > i
     /\ \A k \in (i + 1)..j :
          StmtOf(k).start = StmtOf(k - 1).end + 1 /\ ~StmtOf(k).is_def}

RECURSIVE NodesOf(_, _, _)
NodesOf(body, i, ids) ==
  IF i > Len(body) THEN <<>>
  ELSE (IF (i - 1) \in ids THEN <<body[i]>> ELSE <<>>) \o NodesOf(body, i + 1, ids)

\* Re-executing the statements ids of new_src, in source order, in the namespace
\* old_src left binds every top-level symbol of new_src as a run from scratch does.
Suffices(ids) ==
  LET r == ExecNodes(NodesOf(ast_parse(_sanitise(new_src)), 1, ids), 1,
                     [g |-> conv.g_old, mods |-> Unloaded, out |-> "ok"], FixedDisk)
  IN  /\ r.out = "ok"
      /\ \A n \in TopLevelSymbols :
           /\ n \in DOMAIN r.g
           /\ n \in DOMAIN conv.g_fresh
           /\ r.g[n] = conv.g_fresh[n]

\* C22. Propagation is over-inclusive and never under-inclusive: no statement left
\* clean reads a name that a seeded or propagated statement provides, wherever the
\* provider stands, and no statement whose re-execution is needed is left out: when
\* re-executing the dirty set does not reproduce the run from scratch, re-executing
\* no larger set of statements does.
C22_NeverUnderInclusive ==
  /\ Analysed =>
       \A id \in StmtIds \ res.propagated_ids :
         StmtOf(id).depends \cap syms_of(res.stmts, res.propagated_ids) = {}
  /\ (pc = "applied" /\ conv.old = "ok" /\ conv.fresh = "ok") =>
       \/ Suffices(res.dirty_ids)
       \/ \A more \in SUBSET StmtIds : res.dirty_ids \subseteq more => ~Suffices(more)


(***************************************************************************)
(* What a statement binds and reads, by executing it: in a namespace that  *)
(* binds every name, and in that namespace without one of the names.       *)
(***************************************************************************)
ProbeNamespace ==
  [n \in {"x", "y", "z", "f", "m"} |->
     IF n = "f" THEN FnV(Const(9)) ELSE IF n = "m" THEN ModV("m") ELSE IntV(9)]

Without(g, n) == [x \in DOMAIN g \ {n} |-> g[x]]

ExecIn(node, g) == ExecNode(node, [g |-> g, mods |-> FixedDisk, out |-> "ok"], FixedDisk)

\* The names node creates or rebinds when it is executed.
Binds(node) ==
  {n \in DOMAIN ProbeNamespace :
     \E g \in {ProbeNamespace, Without(ProbeNamespace, n)} :
       LET r == ExecIn(node, g)
       IN  /\ r.out = "ok"
           /\ n \in DOMAIN r.g
           /\ (n \in DOMAIN g => r.g[n] # g[n])}

\* The statement of res.stmts with index id, as a node of the module body.
NodeOf(id) == ast_parse(_sanitise(new_src))[id + 1]

\* C23. Provides is complete: provides of every top-level statement holds every
\* name the statement binds in the namespace when it is executed.
C23_ProvidesComplete ==
  Analysed => \A id \in StmtIds : Binds(NodeOf(id)) \subseteq StmtOf(id).provides


\* The names node reads when it is executed: without the name it raises.  A call
\* in ProbeNamespace reads no name, so the reads of function bodies stay out.
Reads(node) ==
  {n \in DOMAIN ProbeNamespace :
     /\ ExecIn(node, ProbeNamespace).out = "ok"
     /\ ExecIn(node, Without(ProbeNamespace, n)).out # "ok"}

\* C24. Depends covers the statement's own top level: depends of every top-level
\* statement, whatever its class, holds every name the statement reads outside the
\* bodies of nested functions (for a definition: its default argument values), and
\* an augmented assignment depends on its own target.
C24_DependsCoversTopLevel ==
  Analysed => \A id \in StmtIds : Reads(NodeOf(id)) \subseteq StmtOf(id).depends


\* C25. Fixed-point propagation terminates: the propagation loop ends after at most
\* (number of statements + 1) full passes, and when it has ended no statement
\* outside the dirty set reads a name of the dirty-symbol set that seeding and
\* propagation accumulated.
C25_PropagationTerminates ==
  Analysed =>
    /\ res.passes <= Len(res.stmts) + 1
    /\ \A id \in StmtIds \ res.propagated_ids :
         StmtOf(id).depends \cap res.dirty_syms = {}

\* A later pass marks a statement that stands before the statement it reads from:
\* the loop ran a pass that added, a second that added, and a third that did not.
C25_Witness ==
  /\ Analysed
  /\ res.passes = 3
  /\ \E id \in res.propagated_ids \ res.direct_dirty_ids :
       \E by \in res.propagated_ids \ res.direct_dirty_ids :
         by > id /\ StmtOf(id).depends \cap StmtOf(by).provides # {}


\* C26. Snapshot invariant: the statements of a snapshot have the indices 0..n-1
\* in source order, and line ranges that are pairwise disjoint and strictly
\* increasing, so no source line belongs to two statements.
C26_SnapshotInvariant ==
  Analysed =>
    /\ \A i \in 1..Len(res.stmts) :
         res.stmts[i].idx = i - 1 /\ res.stmts[i].start <= res.stmts[i].end
    /\ \A i \in 2..Len(res.stmts) : res.stmts[i - 1].end < res.stmts[i].start


(***************************************************************************)
(* Properties of the resolution of run's argument, checked under           *)
(* SpecResolve.                                                            *)
(***************************************************************************)
\* The source a creating call of run reads: the text of the file when the argument
\* is the path of a file, else the argument itself.
SourceRead(arg) ==
  IF arg.form = "path" /\ arg.path \in DOMAIN Files THEN Files[arg.path] ELSE arg.text

C28_ReloadThroughEmptyPatch ==
  [][(ReuseStep /\ call'.patch # <<>> /\ StripIsEmpty(call'.patch)
        /\ _CTX[call'.arg.key].cfg.reload_modules) =>
       \A m \in BoundModules(_CTX[call'.arg.key].globals) :
         sys_modules'[m] = disk[m]]_vars


\* The events up to event i that came after the last event before i that invoked
\* the callback.
SinceLastInvocation(i) ==
  {j \in 1..i : \A c \in j..(i - 1) : ~events[c].called}

Delivered(n) ==
  \E j \in n..Len(events) :
    /\ events[j].called
    /\ events[n].p \in hits[Cardinality({c \in 1..j : events[c].called})].files

\* C30. No lost notification: every modification event of a watched file is
\* eventually followed by an invocation of the callback whose argument holds that
\* file, also when no further file event occurs after it.
C30_NoLostNotification ==
  \A n \in 1..MaxEvents :
    (Len(events) >= n /\ events[n].p \in Watched) ~> (Len(events) >= n /\ Delivered(n))


\* C31. Creation with a patch is all-or-nothing for the store: a call of run that
\* creates a context and whose patch then raises leaves no new context registered,
\* and every key that a step registers is the key that step's call of run returns.
C31_CreationAllOrNothing ==
  [][/\ (CreateStep /\ call'.patch # <<>> /\ ret'.out # "ok") =>
          DOMAIN _CTX' = DOMAIN _CTX
     /\ \A k \in DOMAIN _CTX' \ DOMAIN _CTX :
          RunStep /\ ret'.out = "ok" /\ ret'.key = k]_vars


\* Executing the source of the creating call raises, in the store as it is.
SourceRaises(arg, cfg) ==
  _execute_fresh(SourceRead(arg), cfg, sys_modules, disk).out # "ok"

\* C32. Failed creation registers nothing: when executing the source of a new
\* context raises (SyntaxError or an exception at run time), the registered keys
\* and every context are as before the call, so the namespace that was built up to
\* the exception is in no context of the store.
C32_FailedCreationRegistersNothing ==
  [][(CreateStep /\ SourceRaises(call'.arg, call'.cfg)) =>
       /\ ret'.out # "ok"
       /\ _CTX' = _CTX]_vars

\* run of a text that binds x and then raises has failed, in a store that holds
\* contexts, and no context has this text as the start of its history.
C32_Witness ==
  /\ call.op = "run"
  /\ call.arg = TextArg(<<x_is_1, z_of_y>>)
  /\ ret.out = "RuntimeError"
  /\ DOMAIN _CTX # {}
  /\ \A k \in DOMAIN _CTX : ~IsPrefix(<<x_is_1, z_of_y>>, _CTX[k].src)

=============================================================================
